---- MODULE Spec2Model ----
(***************************************************************************)
(* SledStore (src/lib.rs): an append-only changeset log kept in a          *)
(* sled::Tree.  Entries live under the 8-byte little-endian encoding of a  *)
(* u64 sequence number, the next sequence number lives under the key       *)
(* "counter".  The tree iterates its keys in lexicographic byte order.     *)
(***************************************************************************)
EXTENDS Integers, Sequences, FiniteSets, TLC

VARIABLES
    db,      \* the tree as every open handle sees it
    disk,    \* the image of the tree that a crash leaves behind
    store,   \* the SledStore instance: [status, counter]
    call,    \* the call in progress or last returned on the instance
    hist     \* history of the run (what the caller has observed so far)

vars == <<db, disk, store, call, hist>>

\* hist records, for the properties:
\*   fresh      the tree was empty when the run began
\*   appended   [cs, key] of every append that returned Ok, in order
\*   attempts   appends of a non-empty changeset started; budget bounds them
\*   failed     some append returned Err or panicked
\*   wrapped    `counter += 1` has wrapped from u64::MAX to 0
\*   crashed    the process has crashed
\*   pending    the changeset of a failed append not yet retried to Ok
\*   abandoned  the caller appended another changeset while one was pending
\*   unused     the instances that have started no such append since opened
\*   replay     what the last load that saw every item applied, known while
\*              the tree is as that load found it, and whether a further
\*              such load has found the tree so

----------------------------------------------------------------------------
(* Bounds of the exploration.                                              *)

MaxAppends == 2
MaxLongAppends == 258

----------------------------------------------------------------------------
(* u64 and byte strings.  TLC integers are 32 bits wide, so a u64 is kept  *)
(* as four 16-bit limbs, most significant first.                           *)

Limb == 65536
Byte == 256
LimbCount == 4

U64Zero == <<0, 0, 0, 0>>
U64Max == <<Limb - 1, Limb - 1, Limb - 1, Limb - 1>>
U64Of(n) == <<0, 0, 0, n>>

\* numeric order of two u64
U64Less(a, b) ==
    \E i \in 1..LimbCount :
        /\ a[i] < b[i]
        /\ \A j \in 1..(i - 1) : a[j] = b[j]

\* u64 + 1, wrapping at 2^64 (what `+= 1` computes without overflow checks)
RECURSIVE AddOneFrom(_, _)
AddOneFrom(a, i) ==
    IF i = 0 THEN a
    ELSE IF a[i] = Limb - 1 THEN AddOneFrom([a EXCEPT ![i] = 0], i - 1)
    ELSE [a EXCEPT ![i] = a[i] + 1]

WrappingAddOne(a) == AddOneFrom(a, LimbCount)

\* faulty variant: most significant byte first
to_be_bytes(n) ==
    << n[1] \div Byte, n[1] % Byte, n[2] \div Byte, n[2] % Byte,
       n[3] \div Byte, n[3] % Byte, n[4] \div Byte, n[4] % Byte >>

\* u64::to_le_bytes: least significant byte first
to_le_bytes(n) ==
    << n[4] % Byte, n[4] \div Byte, n[3] % Byte, n[3] \div Byte,
       n[2] % Byte, n[2] \div Byte, n[1] % Byte, n[1] \div Byte >>

\* u64::from_le_bytes on an 8-byte array
from_le_bytes(b) ==
    << b[7] + Byte * b[8], b[5] + Byte * b[6],
       b[3] + Byte * b[4], b[1] + Byte * b[2] >>

\* "counter".as_bytes()
CounterKey == <<99, 111, 117, 110, 116, 101, 114>>

\* sled's key order: byte-wise lexicographic, a proper prefix sorts first
BytesLess(a, b) ==
    \/ /\ Len(a) < Len(b)
       /\ \A j \in 1..Len(a) : a[j] = b[j]
    \/ \E i \in 1..Len(a) :
        /\ i <= Len(b)
        /\ a[i] < b[i]
        /\ \A j \in 1..(i - 1) : a[j] = b[j]

\* A sled::Tree holds its items in key order.  It is kept as the sequence
\* of its items [key, value], ascending by key, which is what iter() walks.
EmptyTree == <<>>

Keys(tree) == {tree[p].key : p \in DOMAIN tree}

\* sled::Tree::get of a key that is present
Get(tree, k) == tree[CHOOSE p \in DOMAIN tree : tree[p].key = k].value

\* sled::Tree::insert: replaces the value of a key that is present, else
\* puts the item at its place in the key order
Insert(tree, k, v) ==
    LET item == [key |-> k, value |-> v]
        before == Cardinality({p \in DOMAIN tree : BytesLess(tree[p].key, k)})
    IN  IF k \in Keys(tree)
        THEN [p \in DOMAIN tree |-> IF tree[p].key = k THEN item ELSE tree[p]]
        ELSE [p \in 1..(Len(tree) + 1) |->
                 IF p <= before THEN tree[p]
                 ELSE IF p = before + 1 THEN item
                 ELSE tree[p - 1]]

----------------------------------------------------------------------------
(* Changesets and their codec.  A KeychainChangeSet is kept as the set of  *)
(* derivation indices it adds for the External keychain, as in             *)
(* tests::test_changesets ({External: 42}, {External: 43}).                *)

FirstIndex == 42

is_empty(cs) == cs = {}

RECURSIVE Ascending(_)
Ascending(s) ==
    IF s = {} THEN <<>>
    ELSE LET m == CHOOSE x \in s : \A y \in s : x <= y
         IN  <<m>> \o Ascending(s \ {m})

\* bincode::serialize: the length of the map, then its entries in key order
serialize(cs) == <<Cardinality(cs)>> \o Ascending(cs)

\* whether bincode::deserialize accepts the bytes
Decodable(bytes) ==
    /\ Len(bytes) >= 1
    /\ bytes[1] = Len(bytes) - 1
    /\ \A j \in 2..(Len(bytes) - 1) : bytes[j] < bytes[j + 1]

\* bincode::deserialize of bytes it accepts
deserialize(bytes) == {bytes[j] : j \in 2..Len(bytes)}

\* the changesets a caller of Spec appends
ChangeSets == {{}, {FirstIndex}, {FirstIndex + 1}}

----------------------------------------------------------------------------
(* The instances and the trees they are opened on.                         *)

Instances == {"a", "b"}
W == "a"     \* the single writer of Spec

\* counter values found under "counter" at the start, set as in
\* tests::restores_counter: the last one-byte sequence number and the last u64
StartCounters == {U64Of(Byte - 1), U64Max}

CounterOnly(v) == Insert(EmptyTree, CounterKey, to_le_bytes(v))

\* a counter value that is not 8 bytes long
ShortCounterTree == Insert(EmptyTree, CounterKey, <<FirstIndex>>)

\* one entry whose payload bincode rejects, the counter after it
BadPayloadTree ==
    Insert(Insert(EmptyTree, to_le_bytes(U64Zero), <<>>),
           CounterKey, to_le_bytes(U64Of(1)))

InitTrees ==
    {EmptyTree, ShortCounterTree, BadPayloadTree}
        \cup {CounterOnly(v) : v \in StartCounters}

NoCall ==
    [op |-> "none", pc |-> "idle", result |-> "none", cs |-> {},
     counter0 |-> U64Zero, first |-> FALSE, entry |-> FALSE,
     applied |-> <<>>, skipped |-> {}]

NoReplay == [known |-> FALSE, again |-> FALSE, applied |-> <<>>]

NoStore == [status |-> "uninit", counter |-> U64Zero]

TypeOK ==
    /\ \A p \in 1..(Len(db) - 1) : BytesLess(db[p].key, db[p + 1].key)
    /\ \A i \in Instances :
        /\ store[i].status \in {"uninit", "ready"}
        /\ call[i].op \in {"none", "new", "append", "load"}
        /\ call[i].pc \in {"idle", "counter_write"}
        /\ call[i].result \in {"none", "ok", "err", "panic"}

InitOn(trees, budget) ==
    /\ db \in trees
    /\ disk = db
    /\ store = [i \in Instances |-> NoStore]
    /\ call = [i \in Instances |-> NoCall]
    /\ hist = [fresh |-> db = EmptyTree, appended |-> <<>>,
               attempts |-> 0, budget |-> budget,
               failed |-> FALSE, wrapped |-> FALSE, crashed |-> FALSE,
               pending |-> {}, abandoned |-> FALSE, unused |-> {},
               replay |-> NoReplay]

Init == InitOn(InitTrees, MaxAppends)

----------------------------------------------------------------------------
(* SledStore::new                                                          *)

\* the bytes `new` converts: the value under "counter", else 0u64.to_le_bytes()
CounterBytes(tree) ==
    IF CounterKey \in Keys(tree) THEN Get(tree, CounterKey) ELSE to_le_bytes(U64Zero)

\* db.get("counter") fails: `?` returns the sled error
NewErr(i) ==
    /\ call[i].pc = "idle"
    /\ store' = [store EXCEPT ![i] = NoStore]
    /\ call' = [call EXCEPT ![i] = [NoCall EXCEPT !.op = "new", !.result = "err"]]
    /\ hist' = [hist EXCEPT !.unused = @ \ {i}]
    /\ UNCHANGED <<db, disk>>

\* try_into::<[u8; 8]>() fails: expect("Invalid counter") panics
NewPanic(i) ==
    /\ call[i].pc = "idle"
    /\ Len(CounterBytes(db)) # 8
    /\ store' = [store EXCEPT ![i] = NoStore]
    /\ call' = [call EXCEPT ![i] = [NoCall EXCEPT !.op = "new", !.result = "panic"]]
    /\ hist' = [hist EXCEPT !.unused = @ \ {i}]
    /\ UNCHANGED <<db, disk>>

\* faulty variant: the counter is not recovered: every instance starts at zero
NewOkFromZero(i) ==
    /\ call[i].pc = "idle"
    /\ Len(CounterBytes(db)) = 8
    /\ store' = [store EXCEPT ![i] = [status |-> "ready", counter |-> U64Zero]]
    /\ call' = [call EXCEPT ![i] = [NoCall EXCEPT !.op = "new", !.result = "ok"]]
    /\ hist' = [hist EXCEPT !.unused = @ \cup {i}]
    /\ UNCHANGED <<db, disk>>

NewOk(i) ==
    /\ call[i].pc = "idle"
    /\ Len(CounterBytes(db)) = 8
    /\ store' = [store EXCEPT ![i] =
                    [status |-> "ready", counter |-> from_le_bytes(CounterBytes(db))]]
    /\ call' = [call EXCEPT ![i] = [NoCall EXCEPT !.op = "new", !.result = "ok"]]
    /\ hist' = [hist EXCEPT !.unused = @ \cup {i}]
    /\ UNCHANGED <<db, disk>>

New(i) == NewOk(i) \/ NewErr(i) \/ NewPanic(i)

----------------------------------------------------------------------------
(* SledStore::append_changeset, in the steps a crash or another handle can *)
(* fall between: up to the entry insert and `counter += 1`, then the       *)
(* insert of "counter".                                                    *)

CanCall(i) == store[i].status = "ready" /\ call[i].pc = "idle"

\* the run may still start an append of a non-empty changeset
CanAttempt(i, cs) == CanCall(i) /\ ~is_empty(cs) /\ hist.attempts < hist.budget

\* the caller starts an append of a non-empty changeset
Attempt(i, cs) ==
    [hist EXCEPT !.attempts = @ + 1,
                 !.unused = @ \ {i},
                 !.abandoned = @ \/ (hist.pending # {} /\ hist.pending # cs)]

AppendCall(i, cs) ==
    [NoCall EXCEPT !.op = "append", !.cs = cs, !.counter0 = store[i].counter,
                   !.first = (i \in hist.unused /\ ~is_empty(cs))]

\* faulty variant: no is_empty short-circuit: the empty changeset is stored
AppendEmptyStored(i, cs) ==
    /\ CanCall(i)
    /\ is_empty(cs)
    /\ db' = Insert(Insert(db, to_le_bytes(store[i].counter), serialize(cs)),
                    CounterKey, to_le_bytes(WrappingAddOne(store[i].counter)))
    /\ store' = [store EXCEPT ![i].counter = WrappingAddOne(@)]
    /\ call' = [call EXCEPT ![i] = [AppendCall(i, cs) EXCEPT !.result = "ok"]]
    /\ UNCHANGED <<disk, hist>>

\* is_empty: return Ok(()) at once
AppendEmpty(i, cs) ==
    /\ CanCall(i)
    /\ is_empty(cs)
    /\ call' = [call EXCEPT ![i] = [AppendCall(i, cs) EXCEPT !.result = "ok"]]
    /\ UNCHANGED <<db, disk, store, hist>>

\* faulty variant: the counter is advanced before the entry insert is tried
AppendEntryErrCounted(i, cs) ==
    /\ CanAttempt(i, cs)
    /\ store' = [store EXCEPT ![i].counter = WrappingAddOne(@)]
    /\ call' = [call EXCEPT ![i] = [AppendCall(i, cs) EXCEPT !.result = "err"]]
    /\ hist' = [Attempt(i, cs) EXCEPT !.failed = TRUE, !.pending = cs]
    /\ UNCHANGED <<db, disk>>

\* the entry insert fails: `?` returns the error
AppendEntryErr(i, cs) ==
    /\ CanAttempt(i, cs)
    /\ call' = [call EXCEPT ![i] = [AppendCall(i, cs) EXCEPT !.result = "err"]]
    /\ hist' = [Attempt(i, cs) EXCEPT !.failed = TRUE, !.pending = cs]
    /\ UNCHANGED <<db, disk, store>>

\* faulty variant: every append numbers its entry from the persisted counter
AppendEntryOkShared(i, cs) ==
    /\ CanAttempt(i, cs)
    /\ db' = Insert(db, CounterBytes(db), serialize(cs))
    /\ store' = [store EXCEPT ![i].counter =
                     WrappingAddOne(from_le_bytes(CounterBytes(db)))]
    /\ call' = [call EXCEPT ![i] =
                   [AppendCall(i, cs) EXCEPT !.pc = "counter_write", !.entry = TRUE,
                        !.counter0 = from_le_bytes(CounterBytes(db))]]
    /\ hist' = [Attempt(i, cs) EXCEPT !.replay = NoReplay]
    /\ UNCHANGED disk

\* the entry is inserted under counter.to_le_bytes(), then counter += 1
AppendEntryOk(i, cs) ==
    /\ CanAttempt(i, cs)
    /\ db' = Insert(db, to_le_bytes(store[i].counter), serialize(cs))
    /\ store' = [store EXCEPT ![i].counter = WrappingAddOne(@)]
    /\ call' = [call EXCEPT ![i] =
                   [AppendCall(i, cs) EXCEPT !.pc = "counter_write", !.entry = TRUE]]
    /\ hist' = [Attempt(i, cs) EXCEPT !.wrapped = @ \/ store[i].counter = U64Max,
                                      !.replay = NoReplay]
    /\ UNCHANGED disk

\* with overflow checks `counter += 1` panics at u64::MAX, after the insert
AppendOverflowPanic(i, cs) ==
    /\ CanAttempt(i, cs)
    /\ store[i].counter = U64Max
    /\ db' = Insert(db, to_le_bytes(store[i].counter), serialize(cs))
    /\ store' = [store EXCEPT ![i] = NoStore]
    /\ call' = [call EXCEPT ![i] =
                   [AppendCall(i, cs) EXCEPT !.result = "panic", !.entry = TRUE]]
    /\ hist' = [Attempt(i, cs) EXCEPT !.failed = TRUE, !.pending = cs,
                                      !.replay = NoReplay]
    /\ UNCHANGED disk

\* faulty variant: the value written under "counter" is the one before `+= 1`
CounterWriteOkStale(i) ==
    /\ call[i].pc = "counter_write"
    /\ db' = Insert(db, CounterKey, to_le_bytes(call[i].counter0))
    /\ call' = [call EXCEPT ![i].pc = "idle", ![i].result = "ok"]
    /\ hist' = [hist EXCEPT
                  !.appended = Append(@, [cs |-> call[i].cs,
                                          key |-> to_le_bytes(call[i].counter0)]),
                  !.pending = IF @ = call[i].cs THEN {} ELSE @,
                  !.replay = NoReplay]
    /\ UNCHANGED <<disk, store>>

\* the insert of "counter" succeeds: Ok(())
CounterWriteOk(i) ==
    /\ call[i].pc = "counter_write"
    /\ db' = Insert(db, CounterKey, to_le_bytes(store[i].counter))
    /\ call' = [call EXCEPT ![i].pc = "idle", ![i].result = "ok"]
    /\ hist' = [hist EXCEPT
                  !.appended = Append(@, [cs |-> call[i].cs,
                                          key |-> to_le_bytes(call[i].counter0)]),
                  !.pending = IF @ = call[i].cs THEN {} ELSE @,
                  !.replay = NoReplay]
    /\ UNCHANGED <<disk, store>>

\* the insert of "counter" fails: `?` returns the error
CounterWriteErr(i) ==
    /\ call[i].pc = "counter_write"
    /\ call' = [call EXCEPT ![i].pc = "idle", ![i].result = "err"]
    /\ hist' = [hist EXCEPT !.failed = TRUE, !.pending = call[i].cs]
    /\ UNCHANGED <<db, disk, store>>

----------------------------------------------------------------------------
(* SledStore::iter_changesets and load_into_keychain_tracker               *)

\* faulty variant: the item under "counter" is decoded like an entry
YieldedAll(tree, skipped) ==
    LET Kept(item) == item.key \notin skipped
    IN  SelectSeq(tree, Kept)

\* the items iter_changesets yields a changeset for: every item that is Ok
\* and whose key is not "counter", in the tree's order
Yielded(tree, skipped) ==
    LET Kept(item) == item.key \notin skipped /\ item.key # CounterKey
    IN  SelectSeq(tree, Kept)

\* how many of the items are decoded before one fails to decode
DecodedCount(items) ==
    LET bad == {p \in DOMAIN items : ~Decodable(items[p].value)}
    IN  IF bad = {} THEN Len(items)
        ELSE (CHOOSE p \in bad : \A q \in bad : p <= q) - 1

\* faulty variant: a load that consumes the entries it applies
LoadWithDrain(i, skipped) ==
    /\ CanCall(i)
    /\ LET items == Yielded(db, skipped)
           n == DecodedCount(items)
           applied == [p \in 1..n |->
                         [key |-> items[p].key, cs |-> deserialize(items[p].value)]]
           Left(item) == \A p \in 1..n : items[p].key # item.key
       IN  /\ call' = [call EXCEPT ![i] =
                [NoCall EXCEPT !.op = "load", !.counter0 = store[i].counter,
                    !.applied = applied,
                    !.skipped = skipped,
                    !.result = IF n = Len(items) THEN "ok" ELSE "panic"]]
           /\ hist' = IF skipped = {} /\ n = Len(items)
                      THEN [hist EXCEPT !.replay = [known |-> TRUE,
                                                    again |-> hist.replay.known,
                                                    applied |-> applied]]
                      ELSE hist
           /\ db' = SelectSeq(db, Left)
    /\ UNCHANGED <<disk, store>>

\* load: apply each changeset in turn; expect() panics at a payload that
\* does not decode; an Err item is dropped by the filter_map
LoadWith(i, skipped) ==
    /\ CanCall(i)
    /\ LET items == Yielded(db, skipped)
           n == DecodedCount(items)
           applied == [p \in 1..n |->
                         [key |-> items[p].key, cs |-> deserialize(items[p].value)]]
       IN  /\ call' = [call EXCEPT ![i] =
                [NoCall EXCEPT !.op = "load", !.counter0 = store[i].counter,
                    !.applied = applied,
                    !.skipped = skipped,
                    !.result = IF n = Len(items) THEN "ok" ELSE "panic"]]
           /\ hist' = IF skipped = {} /\ n = Len(items)
                      THEN [hist EXCEPT !.replay = [known |-> TRUE,
                                                    again |-> hist.replay.known,
                                                    applied |-> applied]]
                      ELSE hist
    /\ UNCHANGED <<db, disk, store>>

Load(i) == LoadWith(i, {})

\* the tree's iterator yields Err for one item
LoadIterErr(i) == \E k \in Keys(db) : LoadWith(i, {k})

----------------------------------------------------------------------------
(* The tree below the instance: sled writes its log to disk in the         *)
(* background; a crash keeps what was written out.                         *)

Flush ==
    /\ disk # db
    /\ disk' = db
    /\ UNCHANGED <<db, store, call, hist>>

\* (one crash per run)
Crash ==
    /\ ~hist.crashed
    /\ db' = disk
    /\ store' = [i \in Instances |-> NoStore]
    /\ call' = [i \in Instances |-> NoCall]
    /\ hist' = [hist EXCEPT !.crashed = TRUE, !.unused = {}, !.replay = NoReplay]
    /\ UNCHANGED disk

----------------------------------------------------------------------------
(* Spec: one writer, every outcome of every sled call.                     *)

Next ==
    \/ New(W)
    \/ \E cs \in ChangeSets :
        \/ AppendEmpty(W, cs)
        \/ AppendEntryErr(W, cs)
        \/ AppendEntryOk(W, cs)
        \/ AppendOverflowPanic(W, cs)
    \/ CounterWriteOk(W)
    \/ CounterWriteErr(W)
    \/ Load(W)
    \/ LoadIterErr(W)
    \/ Flush
    \/ Crash

Spec == Init /\ [][Next]_vars

----------------------------------------------------------------------------
(* SpecLong: the run of tests::works made long.  A log opened on an empty  *)
(* tree, no sled error, no crash; the caller appends the changesets        *)
(* {External: 42}, {External: 43}, ... in turn, and may append an empty    *)
(* changeset, load or reopen at any point.                                 *)

NextChangeSet == {FirstIndex + hist.attempts}

NextLong ==
    \/ NewOk(W)
    \/ AppendEmpty(W, {})
    \/ AppendEntryOk(W, NextChangeSet)
    \/ CounterWriteOk(W)
    \/ Load(W)

InitLong == InitOn({EmptyTree}, MaxLongAppends)

SpecLong == InitLong /\ [][NextLong]_vars

----------------------------------------------------------------------------
(* SpecTwo: the single-writer assumption dropped.  Two instances are       *)
(* opened on the same empty tree before either appends; then both append   *)
(* the changesets {External: 42}, {External: 43}, ... and load, their      *)
(* sled calls interleaved in any way; no sled error, no crash.             *)

\* an instance is opened while no append has begun
OpenFirst(i) ==
    /\ hist.attempts = 0
    /\ NewOk(i)

NextTwo ==
    \E i \in Instances :
        \/ OpenFirst(i)
        \/ AppendEntryOk(i, NextChangeSet)
        \/ CounterWriteOk(i)
        \/ Load(i)

InitTwo == InitOn({EmptyTree}, MaxAppends)

SpecTwo == InitTwo /\ [][NextTwo]_vars

----------------------------------------------------------------------------
(* Vocabulary of the properties.                                           *)

\* a sequence number below 2^31 as a u64, and the key it is stored under
ToU64(n) == <<0, 0, n \div Limb, n % Limb>>

SeqKey(n) ==
    << n % Byte, (n \div Byte) % Byte, (n \div Limb) % Byte,
       (n \div (Limb * Byte)) % Byte, 0, 0, 0, 0 >>

\* byte j (1 = least significant) of a u64, and its 8-byte little-endian form
ByteOf(v, j) ==
    LET limb == v[LimbCount - ((j - 1) \div 2)]
    IN  IF j % 2 = 1 THEN limb % Byte ELSE limb \div Byte

KeyFor(v) == [j \in 1..8 |-> ByteOf(v, j)]

\* the sequence number an 8-byte key stands for
SeqOf(k) == [l \in 1..LimbCount |->
                k[2 * (LimbCount - l) + 1] + Byte * k[2 * (LimbCount - l) + 2]]

EntryKeys(tree) == Keys(tree) \ {CounterKey}

\* the changesets handed to apply by the last load, in order
AppliedCs == [p \in DOMAIN call[W].applied |-> call[W].applied[p].cs]

\* the changesets whose append returned Ok, in order
AppendedCs == [p \in DOMAIN hist.appended |-> hist.appended[p].cs]

Count(seq, x) == Cardinality({p \in DOMAIN seq : seq[p] = x})

Position(seq, k) == CHOOSE p \in DOMAIN seq : seq[p].key = k

\* the last call on the writer was a load that returned Ok and saw every item
LoadedAll ==
    /\ call[W].op = "load"
    /\ call[W].result = "ok"
    /\ call[W].skipped = {}

\* the last call on the writer was an append of a non-empty changeset that
\* has returned `result`
Appended(result) ==
    /\ call[W].op = "append"
    /\ call[W].pc = "idle"
    /\ ~is_empty(call[W].cs)
    /\ call[W].result = result

----------------------------------------------------------------------------
(* The properties.                                                         *)

\* C1: round trip.  On a log opened on an empty tree, where every append
\* returned Ok, a load hands apply exactly the appended changesets, in the
\* order they were appended.
C1_RoundTrip ==
    (LoadedAll /\ hist.fresh /\ ~hist.failed /\ ~hist.crashed)
        => AppliedCs = AppendedCs

\* C2: replay order is append order.  For every two appends of different
\* changesets that returned Ok, the earlier one's entry is handed to apply
\* before the later one's, by every later load (no crash and no counter wrap
\* in the run).
C2_ReplayInAppendOrder ==
    (LoadedAll /\ ~hist.crashed /\ ~hist.wrapped)
        => \A p, q \in DOMAIN hist.appended :
              (p < q /\ hist.appended[p].cs # hist.appended[q].cs) =>
                /\ \E a \in DOMAIN call[W].applied :
                      call[W].applied[a].key = hist.appended[p].key
                /\ \E b \in DOMAIN call[W].applied :
                      call[W].applied[b].key = hist.appended[q].key
                /\ Position(call[W].applied, hist.appended[p].key)
                      < Position(call[W].applied, hist.appended[q].key)

\* C3: retry safety.  When the caller retries every failed append with the
\* same changeset until it returns Ok, a load replays each changeset as many
\* times as an append of it returned Ok: none lost, none duplicated.
C3_RetryExactlyOnce ==
    (/\ LoadedAll
     /\ hist.pending = {}
     /\ ~hist.abandoned
     /\ ~hist.crashed
     /\ ~hist.wrapped)
        => \A cs \in ChangeSets : Count(AppliedCs, cs) = Count(AppendedCs, cs)

\* C4: an append whose entry insert succeeded and whose insert of "counter"
\* failed leaves the in-memory counter as it was before the call.
C4_CounterKeptOnCounterWriteError ==
    (Appended("err") /\ call[W].entry)
        => store[W].counter = call[W].counter0

\* C5: an append whose entry insert fails returns the error and changes
\* neither the in-memory counter, nor the value under "counter", nor any
\* stored entry.
C5_EntryWriteErrorChangesNothing ==
    [][(/\ hist'.attempts = hist.attempts + 1
        /\ ~call'[W].entry)
          => /\ call'[W].op = "append"
             /\ call'[W].pc = "idle"
             /\ call'[W].result = "err"
             /\ store' = store
             /\ db' = db
             /\ disk' = disk]_vars

C5_Witness ==
    /\ Appended("err")
    /\ ~call[W].entry
    /\ EntryKeys(db) # {}
    /\ store[W].counter # U64Zero

\* C6: the value under "counter" is greater than the sequence number of
\* every stored entry, in every state of the tree (no counter wrap).
C6_PersistedCounterAhead ==
    (~hist.wrapped /\ Len(CounterBytes(db)) = 8)
        => \A k \in EntryKeys(db) : U64Less(SeqOf(k), SeqOf(CounterBytes(db)))

\* what the tree stores besides "counter": each entry's key and changeset
Stored(tree) ==
    {[key |-> tree[p].key, cs |-> deserialize(tree[p].value)] :
        p \in {q \in DOMAIN tree : tree[q].key # CounterKey}}

\* the first n appended changesets under the sequence numbers 0..n-1
InOrder(n) == {[key |-> SeqKey(p - 1), cs |-> hist.appended[p].cs] : p \in 1..n}

\* C7: reopen continues the sequence.  On a tree that was empty at first and
\* has taken k appends that all returned Ok, a new instance recovers the
\* counter k; its first append stores its entry under sequence number k, and
\* the entries 0..k-1 keep their changesets.
C7_ReopenContinues ==
    LET k == Len(hist.appended)
    IN  /\ (call[W].op = "new" /\ call[W].result = "ok")
              => /\ store[W].counter = ToU64(k)
                 /\ Stored(db) = InOrder(k)
        /\ (call[W].op = "append" /\ call[W].first /\ call[W].pc = "counter_write")
              => Stored(db) = InOrder(k) \cup {[key |-> SeqKey(k), cs |-> call[W].cs]}
        /\ (Appended("ok") /\ call[W].first)
              => /\ hist.appended[k].key = SeqKey(k - 1)
                 /\ Stored(db) = InOrder(k)

\* an instance opened after more than 256 appends has appended
C7_Witness ==
    /\ Appended("ok")
    /\ call[W].first
    /\ Len(hist.appended) > Byte + 1
    /\ call[W].counter0 = ToU64(Len(hist.appended) - 1)

\* C8: counter recovery.  A new instance's counter is the value V that
\* "counter" holds (0 when the key is absent); the first append after the
\* open that returns Ok has stored its entry under the key for V and leaves
\* the in-memory counter and the value under "counter" at V + 1.
C8_CounterRecovery ==
    /\ (call[W].op = "new" /\ call[W].result = "ok")
          => IF CounterKey \in Keys(db)
             THEN Get(db, CounterKey) = KeyFor(store[W].counter)
             ELSE store[W].counter = U64Zero
    /\ (Appended("ok") /\ call[W].first)
          => /\ [key |-> KeyFor(call[W].counter0), cs |-> call[W].cs] \in Stored(db)
             /\ U64Less(call[W].counter0, store[W].counter)
             /\ store[W].counter = WrappingAddOne(call[W].counter0)
             /\ CounterBytes(db) = KeyFor(store[W].counter)

C10_EmptyAppendIsNoOp ==
    [][(/\ call'[W] # call[W]
        /\ call'[W].op = "append"
        /\ is_empty(call'[W].cs))
          => /\ call'[W].result = "ok"
             /\ call'[W].pc = "idle"
             /\ db' = db
             /\ disk' = disk
             /\ store' = store]_vars

C10_Witness ==
    /\ call[W].op = "append"
    /\ is_empty(call[W].cs)
    /\ call[W].result = "ok"
    /\ EntryKeys(db) # {}
    /\ CounterKey \in Keys(db)
    /\ store[W].counter # U64Zero

\* C11: when "counter" holds a value that is not 8 bytes long, `new` returns
\* an error to its caller and yields no instance.
C11_ShortCounterIsAnError ==
    (call[W].op = "new" /\ Len(CounterBytes(db)) # 8)
        => /\ call[W].result = "err"
           /\ store[W].status = "uninit"

\* a step in which the writer's load runs
LoadStep ==
    /\ call'[W].op = "load"
    /\ <<call, hist>>' # <<call, hist>>

C13_IterationErrorSurfaced ==
    (/\ call[W].op = "load"
     /\ \E p \in DOMAIN hist.appended :
            hist.appended[p].key \in call[W].skipped \cap EntryKeys(db))
        => call[W].result = "err"

\* C14: a load that meets a payload bincode rejects returns an error result,
\* having applied exactly the entries before it.
C14_BadPayloadIsAnError ==
    LET items == Yielded(db, {})
    IN  (/\ call[W].op = "load"
         /\ call[W].skipped = {}
         /\ \E p \in DOMAIN items : ~Decodable(items[p].value))
            => /\ call[W].result = "err"
               /\ Len(call[W].applied) = DecodedCount(items)

\* C15: what an append that returned Ok wrote survives a later crash: after
\* the crash and any reopen, every such append's entry is in the tree with
\* its changeset.
C15_AppendSurvivesCrash ==
    (hist.crashed /\ ~hist.wrapped)
        => \A p \in DOMAIN hist.appended :
              [key |-> hist.appended[p].key, cs |-> hist.appended[p].cs]
                  \in Stored(db)

\* C16: a ready instance on a tree that was empty at first and has been
\* written by this log alone, write failures allowed, holds a counter above
\* the sequence number of every stored entry.
C16_CounterAboveEntries ==
    (hist.fresh /\ ~hist.crashed /\ store[W].status = "ready")
        => \A k \in EntryKeys(db) : U64Less(SeqOf(k), store[W].counter)

\* C17: an append never leaves the instance's counter below the value it
\* had when the append began, whatever 64-bit value that was.
C17_CounterNeverDecreases ==
    (call[W].op = "append" /\ store[W].status = "ready")
        => ~U64Less(store[W].counter, call[W].counter0)

AppendsOf(i) == store[i].counter[LimbCount]

Least(m, n) == IF m <= n THEN m ELSE n

\* C19: two instances opened on the same tree before either appends number
\* their entries alike, so between appends the tree holds fewer entries than
\* appends have returned Ok, by the number of sequence numbers both have
\* used, and a complete load applies only the changesets that are left.
C19_TwoWritersOverwrite ==
    (\A i \in Instances : call[i].pc = "idle")
        => /\ Len(hist.appended) - Cardinality(Stored(db))
                 = Least(AppendsOf("a"), AppendsOf("b"))
           /\ hist.replay.known
                 => {hist.replay.applied[p] : p \in DOMAIN hist.replay.applied}
                        = Stored(db)

\* both instances have appended once with Ok, and a later complete load
\* applied one changeset, not the other
C19_Witness ==
    /\ \A i \in Instances :
          call[i].pc = "idle" /\ AppendsOf(i) = 1
    /\ Len(hist.appended) = 2
    /\ hist.replay.known
    /\ \E p \in DOMAIN hist.appended :
          \A q \in DOMAIN hist.replay.applied :
              hist.replay.applied[q].cs # hist.appended[p].cs

====
